---- MODULE Spec2Model ----
(***************************************************************************)
(* Model of miniProject/app_region_stats.py: the Streamlit dashboard that  *)
(* derives delay / cancellation flags and regional aggregates from the     *)
(* Olist order tables and renders them for a selection of states.          *)
(*                                                                         *)
(* Time is counted in ticks, TicksPerDay ticks to a day, so that a         *)
(* timestamp carries a time of day and Timedelta.days is a floor division. *)
(* Money is counted in whole units.  A percentage rounded to two decimals  *)
(* is kept in hundredths of a percent (33.33 % is 3333).                   *)
(* The columns avg_time_success, avg_time_failure and Revenue Loss Ratio    *)
(* are left out: no property below reads them and none of them can raise.  *)
(***************************************************************************)
EXTENDS Integers, Sequences, FiniteSets

\* ------------------------------------------------------------------ bounds
TicksPerDay == 2
MaxOrders == 2
MaxRegionOrders == 4
MaxLoadExecs == 2

\* ------------------------------------------------------------ cell values
NaT == -1                      \* pandas NaT; every real timestamp is >= 0
NaN == "NaN"                   \* a missing string cell
None == "None"                 \* Python None in an object column
Blank == <<>>                  \* an empty raw cell / a NaN number
Cell(v) == <<v>>

Files == {"orders", "customers", "order_items"}

\* pd.to_datetime on one raw cell: an empty cell becomes NaT
to_datetime(cell) == IF cell = Blank THEN NaT ELSE cell[1]

\* Comparisons of datetime cells: any comparison with NaT is False
DateGt(a, b) == a # NaT /\ b # NaT /\ a > b
DateLt(a, b) == a # NaT /\ b # NaT /\ a < b

\* (a - b).dt.days : NaN when either side is NaT, else the floor in days
DaysBetween(a, b) ==
    IF a = NaT \/ b = NaT THEN Blank ELSE Cell((a - b) \div TicksPerDay)

\* ------------------------------------------------------------ small folds
RECURSIVE SumOver(_, _)
SumOver(f, S) ==
    IF S = {} THEN 0
    ELSE LET x == CHOOSE y \in S : TRUE IN f[x] + SumOver(f, S \ {x})

RECURSIVE Flatten(_)
Flatten(ss) == IF ss = <<>> THEN <<>> ELSE Head(ss) \o Flatten(Tail(ss))

Max(S) == CHOOSE x \in S : \A y \in S : y <= x

\* ------------------------------------------------- load_and_process_data
\* lines 36-38: the three date columns of orders parsed
ParseDates(orders) ==
    [i \in 1..Len(orders) |->
        [order_id |-> orders[i].order_id,
         customer_id |-> orders[i].customer_id,
         order_status |-> orders[i].order_status,
         order_purchase_timestamp |-> to_datetime(orders[i].order_purchase_timestamp),
         order_delivered_customer_date |-> to_datetime(orders[i].order_delivered_customer_date),
         order_estimated_delivery_date |-> to_datetime(orders[i].order_estimated_delivery_date)]]

\* line 41: left merge of orders with customers[['customer_id','customer_state']]
\* one row per matching customer record, one row with a NaN state when none matches
MergeCustomers(orders, customers) ==
    Flatten([i \in 1..Len(orders) |->
        LET m == SelectSeq(customers, LAMBDA c : c.customer_id = orders[i].customer_id)
            row(st) == [order_id |-> orders[i].order_id,
                        order_status |-> orders[i].order_status,
                        order_purchase_timestamp |-> orders[i].order_purchase_timestamp,
                        order_delivered_customer_date |-> orders[i].order_delivered_customer_date,
                        order_estimated_delivery_date |-> orders[i].order_estimated_delivery_date,
                        customer_state |-> st]
        IN IF m = <<>> THEN <<row(NaN)>>
           ELSE [j \in 1..Len(m) |-> row(m[j].customer_state)]])

\* the first line item's price in place of the sum
OrderValuesFirst(order_items) ==
    [o \in {order_items[k].order_id : k \in 1..Len(order_items)} |->
        order_items[CHOOSE k \in 1..Len(order_items) :
                        /\ order_items[k].order_id = o
                        /\ \A j \in 1..(k - 1) : order_items[j].order_id # o].price]

\* line 44: order_items.groupby('order_id')['price'].sum()
\* the order ids that have line items, each with the sum of its prices
OrderValues(order_items) ==
    [o \in {order_items[k].order_id : k \in 1..Len(order_items)} |->
        SumOver([k \in 1..Len(order_items) |-> order_items[k].price],
                {k \in 1..Len(order_items) : order_items[k].order_id = o})]

\* line 45: left merge on order_id, then fillna({'price': 0})
PriceOf(order_id, order_values) ==
    IF order_id \in DOMAIN order_values THEN order_values[order_id] ELSE 0

\* the latest purchase timestamp itself, the day not added
SnapshotDateLatest(df) ==
    LET ts == {df[i].order_purchase_timestamp : i \in 1..Len(df)} \ {NaT}
    IN IF ts = {} THEN NaT ELSE Max(ts)

\* line 48: the latest purchase timestamp (NaT cells skipped) plus one day
SnapshotDate(df) ==
    LET ts == {df[i].order_purchase_timestamp : i \in 1..Len(df)} \ {NaT}
    IN IF ts = {} THEN NaT ELSE Max(ts) + TicksPerDay

\* lines 51-60: the status and delay flags of one row
IsSuccess(r) == r.order_status = "delivered"
IsCanceled(r) == r.order_status = "canceled"
IsSuccessDelay(r) ==
    IsSuccess(r) /\ DateGt(r.order_delivered_customer_date, r.order_estimated_delivery_date)
IsFailureDelay(r, snapshot_date) ==
    (~IsSuccess(r) /\ ~IsCanceled(r)) /\ DateLt(r.order_estimated_delivery_date, snapshot_date)
IsCanceledDelay(r, snapshot_date) ==
    IsCanceled(r) /\ DateLt(r.order_estimated_delivery_date, snapshot_date)

\* lines 70-74: a NaN fails every comparison and falls to the last branch
categorize_delay(days) ==
    IF days = Blank THEN "7+"
    ELSE IF days[1] <= 0 THEN None
    ELSE IF days[1] <= 3 THEN "1-3"
    ELSE IF days[1] <= 7 THEN "4-7"
    ELSE "7+"

\* line 76: categorised only for rows flagged canceled-delay or failure-delay
DelayIntensity(is_canceled_delay, is_failure_delay, delay_duration) ==
    IF is_canceled_delay \/ is_failure_delay
    THEN categorize_delay(delay_duration) ELSE None

\* lines 36-76: the merged frame with its derived columns
TransformFrame(tables) ==
    LET orders == ParseDates(tables.orders)
        merged == MergeCustomers(orders, tables.customers)
        values == OrderValues(tables.order_items)
        snap == SnapshotDate(merged)
    IN [i \in 1..Len(merged) |->
        LET r == merged[i]
            dur == DaysBetween(snap, r.order_estimated_delivery_date)
        IN [order_id |-> r.order_id,
            order_status |-> r.order_status,
            order_purchase_timestamp |-> r.order_purchase_timestamp,
            order_delivered_customer_date |-> r.order_delivered_customer_date,
            order_estimated_delivery_date |-> r.order_estimated_delivery_date,
            customer_state |-> r.customer_state,
            price |-> PriceOf(r.order_id, values),
            snapshot_date |-> snap,
            is_success |-> IsSuccess(r),
            is_canceled |-> IsCanceled(r),
            is_success_delay |-> IsSuccessDelay(r),
            is_failure_delay |-> IsFailureDelay(r, snap),
            is_canceled_delay |-> IsCanceledDelay(r, snap),
            delay_duration |-> dur,
            delay_intensity |-> DelayIntensity(IsCanceledDelay(r, snap),
                                               IsFailureDelay(r, snap), dur)]]

\* ------------------------------------------------------------ aggregation
Rows(df, st) == {i \in 1..Len(df) : df[i].customer_state = st}

\* groupby('customer_state') drops the rows whose state is NaN
Regions(df) == {df[i].customer_state : i \in 1..Len(df)} \ {NaN}

\* ('col', 'sum') over a boolean column, and the lambdas of lines 91-93
CountTrue(df, S, col) == Cardinality({i \in S : df[i][col]})
CountEqual(df, S, col, v) == Cardinality({i \in S : df[i][col] = v})

\* ('price', 'sum'), and the lambdas of lines 84 and 88 over a boolean column
PriceSum(df, S) == SumOver([i \in 1..Len(df) |-> df[i].price], S)
PriceSumWhere(df, S, col) == PriceSum(df, {i \in S : df[i][col]})

\* round-half-even of num / den for num >= 0, den > 0 (numpy's round)
RoundHalfEven(num, den) ==
    LET q == num \div den
        r == num % den
    IN IF 2 * r < den THEN q
       ELSE IF 2 * r > den THEN q + 1
       ELSE IF q % 2 = 0 THEN q ELSE q + 1

\* the ratio left as a fraction of one, the * 100 forgotten
TotalDelayRatioFraction(success_delay_cnt, failure_delay_cnt, canceled_delay_cnt, total_orders) ==
    RoundHalfEven(100 * (success_delay_cnt + failure_delay_cnt + canceled_delay_cnt),
                  total_orders)

\* line 97: (cnt / total_orders * 100).round(2), in hundredths of a percent;
\* a region whose rows all lack an order_id would divide by zero (inf / NaN):
\* every order of the model has an order_id, so total_orders >= 1
TotalDelayRatio(success_delay_cnt, failure_delay_cnt, canceled_delay_cnt, total_orders) ==
    RoundHalfEven(10000 * (success_delay_cnt + failure_delay_cnt + canceled_delay_cnt),
                  total_orders)

\* lines 79-97: one row of region_stats, before the segments
RegionRow(df, st) ==
    LET S == Rows(df, st)
        total == Cardinality(S)
        sd == CountTrue(df, S, "is_success_delay")
        fd == CountTrue(df, S, "is_failure_delay")
        cd == CountTrue(df, S, "is_canceled_delay")
    IN [customer_state |-> st,
        total_orders |-> total,
        total_order_value |-> PriceSum(df, S),
        success_cnt |-> CountTrue(df, S, "is_success"),
        canceled_cnt |-> CountTrue(df, S, "is_canceled"),
        canceled_value |-> PriceSumWhere(df, S, "is_canceled"),
        success_delay_cnt |-> sd,
        failure_delay_cnt |-> fd,
        canceled_delay_cnt |-> cd,
        canceled_delay_value |-> PriceSumWhere(df, S, "is_canceled_delay"),
        delay_1_3 |-> CountEqual(df, S, "delay_intensity", "1-3"),
        delay_4_7 |-> CountEqual(df, S, "delay_intensity", "4-7"),
        delay_7_plus |-> CountEqual(df, S, "delay_intensity", "7+"),
        total_delay_ratio |-> TotalDelayRatio(sd, fd, cd, total)]

\* the values of f over S in ascending order
RECURSIVE SortedValues(_, _)
SortedValues(f, S) ==
    IF S = {} THEN <<>>
    ELSE LET x == CHOOSE y \in S : \A z \in S : f[y] <= f[z]
         IN <<f[x]>> \o SortedValues(f, S \ {x})

\* pd.qcut(x, q=3): the four bin edges, the quantiles 0, 1/3, 2/3, 1 by linear
\* interpolation, each multiplied by 3 to stay whole
QcutEdges(v) ==
    LET n == Len(v)
        edge(k) == LET p == k * (n - 1)
                       i == p \div 3 + 1
                       f == p % 3
                   IN IF f = 0 THEN 3 * v[i] ELSE 3 * v[i] + f * (v[i + 1] - v[i])
    IN [k \in 0..3 |-> edge(k)]

\* pd.qcut raises ValueError ("Bin edges must be unique") unless the four edges
\* differ; an empty column has no edges at all
QcutRaises(v) ==
    \/ Len(v) = 0
    \/ Cardinality({QcutEdges(v)[k] : k \in 0..3}) < 4

\* the label of one value: bins are right-closed and the first includes the lowest
QcutLabel(v, x) ==
    LET e == QcutEdges(v)
    IN IF 3 * x <= e[1] THEN "low" ELSE IF 3 * x <= e[2] THEN "mid" ELSE "high"

\* lines 79-109: region_stats in a cell, or Blank when pd.qcut raises
Aggregate(df) ==
    LET rs == Regions(df)
        row == [st \in rs |-> RegionRow(df, st)]
        ratios == SortedValues([st \in rs |-> row[st].total_delay_ratio], rs)
        totals == SortedValues([st \in rs |-> row[st].total_orders], rs)
    IN IF QcutRaises(ratios) \/ QcutRaises(totals) THEN Blank
       ELSE Cell([st \in rs |->
                [customer_state |-> st,
                 total_orders |-> row[st].total_orders,
                 total_order_value |-> row[st].total_order_value,
                 success_cnt |-> row[st].success_cnt,
                 canceled_cnt |-> row[st].canceled_cnt,
                 canceled_value |-> row[st].canceled_value,
                 success_delay_cnt |-> row[st].success_delay_cnt,
                 failure_delay_cnt |-> row[st].failure_delay_cnt,
                 canceled_delay_cnt |-> row[st].canceled_delay_cnt,
                 canceled_delay_value |-> row[st].canceled_delay_value,
                 delay_1_3 |-> row[st].delay_1_3,
                 delay_4_7 |-> row[st].delay_4_7,
                 delay_7_plus |-> row[st].delay_7_plus,
                 total_delay_ratio |-> row[st].total_delay_ratio,
                 delay_segment |-> QcutLabel(ratios, row[st].total_delay_ratio),
                 order_volume_segment |-> QcutLabel(totals, row[st].total_orders)]])

\* ------------------------------------------------------------ file loading
\* lines 26-29: the try block; a read that raises leaves the later ones undone
TryParquet(files, env) ==
    LET o == "orders" \in env.pqOk
        c == o /\ "customers" \in env.pqOk
        i == c /\ "order_items" \in env.pqOk
    IN [raised |-> ~i,
        orders |-> IF o THEN Cell([src |-> "parquet", rows |-> files.pq.orders]) ELSE Blank,
        customers |-> IF c THEN Cell([src |-> "parquet", rows |-> files.pq.customers]) ELSE Blank,
        order_items |-> IF i THEN Cell([src |-> "parquet", rows |-> files.pq.order_items]) ELSE Blank]

\* an except block that reads from CSV only what the try block did not assign
ExceptCsvMissingOnly(locals, files, env) ==
    LET o == locals.orders # Blank \/ "orders" \in env.csvOk
        c == o /\ (locals.customers # Blank \/ "customers" \in env.csvOk)
        i == c /\ (locals.order_items # Blank \/ "order_items" \in env.csvOk)
    IN [raised |-> ~i,
        orders |-> IF locals.orders = Blank /\ o
                   THEN Cell([src |-> "csv", rows |-> files.csv.orders]) ELSE locals.orders,
        customers |-> IF locals.customers = Blank /\ c
                      THEN Cell([src |-> "csv", rows |-> files.csv.customers]) ELSE locals.customers,
        order_items |-> IF locals.order_items = Blank /\ i
                        THEN Cell([src |-> "csv", rows |-> files.csv.order_items])
                        ELSE locals.order_items]

\* lines 30-33: the except block reads all three CSV files, whatever the try
\* block had already assigned; a read that raises here is not caught
ExceptCsv(locals, files, env) ==
    LET o == "orders" \in env.csvOk
        c == o /\ "customers" \in env.csvOk
        i == c /\ "order_items" \in env.csvOk
    IN [raised |-> ~i,
        orders |-> IF o THEN Cell([src |-> "csv", rows |-> files.csv.orders]) ELSE locals.orders,
        customers |-> IF c THEN Cell([src |-> "csv", rows |-> files.csv.customers]) ELSE locals.customers,
        order_items |-> IF i THEN Cell([src |-> "csv", rows |-> files.csv.order_items]) ELSE locals.order_items]

\* lines 26-33: the locals after the load block, and whether it raised
LoadTables(files, env) ==
    LET t == TryParquet(files, env)
    IN IF t.raised THEN ExceptCsv(t, files, env) ELSE t

\* the three tables the pipeline goes on with
TablesOf(locals) ==
    [orders |-> locals.orders[1].rows,
     customers |-> locals.customers[1].rows,
     order_items |-> locals.order_items[1].rows]

\* ---------------------------------------------------------------- caching
\* a cache that keeps nothing
CacheStoreNothing(result) == Blank

\* @st.cache_data (lines 13, 23): a call that returns stores its value, None
\* included; a call that raises stores nothing
CacheStore(result) == Cell(result)

\* lines 16-21: the fetched JSON, or None when requests.get or .json() raises
get_brazil_geojson(net) ==
    IF net = "ok" THEN "geojson" ELSE IF net = "empty" THEN "emptyjson" ELSE None

\* line 144: `if brazil_geojson:` - None and an empty JSON value are falsy
Truthy(geo) == geo = "geojson"

\* ------------------------------------------------------------------- main
\* line 121: the multiselect's default, cut to the states of the model
\* ('RJ' is in the default list, 'SP' and 'MG' are not)
DefaultStates == {"RJ"}

Restrict(f, S) == [x \in S |-> f[x]]

\* the isin filter alone, the empty selection not told apart
FilteredDataIsinOnly(data, selected_states) ==
    Restrict(data, {st \in DOMAIN data : st \in selected_states})

\* lines 123-126
FilteredData(data, selected_states) ==
    IF selected_states = {} THEN data
    ELSE Restrict(data, {st \in DOMAIN data : st \in selected_states})

ColumnSum(frame, col) == SumOver([st \in DOMAIN frame |-> frame[st][col]], DOMAIN frame)

\* the three delay counts summed, canceled-delay orders included
AvgTotalDelayAllDelays(filtered_data) ==
    [num |-> 10000 * (ColumnSum(filtered_data, "success_delay_cnt")
                      + ColumnSum(filtered_data, "failure_delay_cnt")
                      + ColumnSum(filtered_data, "canceled_delay_cnt")),
     den |-> ColumnSum(filtered_data, "total_orders")]

\* line 135: avg_total_delay, unrounded, as the fraction num / den in hundredths
\* of a percent
AvgTotalDelay(filtered_data) ==
    [num |-> 10000 * (ColumnSum(filtered_data, "success_delay_cnt")
                      + ColumnSum(filtered_data, "failure_delay_cnt")),
     den |-> ColumnSum(filtered_data, "total_orders")]

\* lines 132-321: what the page shows; the delay-rate card shows avg_total_delay
\* to two decimals
RenderPage(data, filtered_data, brazil_geojson) ==
    LET total == ColumnSum(filtered_data, "total_orders")
        sd == ColumnSum(filtered_data, "success_delay_cnt")
        fd == ColumnSum(filtered_data, "failure_delay_cnt")
    IN [kpi_total_orders |-> total,
        avg_total_delay |-> AvgTotalDelay(filtered_data),
        kpi_delay_text |-> IF total = 0 THEN Blank
                           ELSE Cell(RoundHalfEven(AvgTotalDelay(filtered_data).num, total)),
        kpi_success_delay |-> sd,
        kpi_failure_delay |-> fd,
        map_warning |-> ~Truthy(brazil_geojson),
        map |-> IF Truthy(brazil_geojson)
                THEN [st \in DOMAIN data |-> data[st].total_delay_ratio]
                ELSE Blank,
        bar_delay |-> [st \in DOMAIN data |-> data[st].total_delay_ratio],
        bar_volume |-> [st \in DOMAIN data |-> data[st].total_orders],
        pie |-> <<sd, fd>>,
        table |-> [st \in DOMAIN filtered_data |->
                    [total_orders |-> filtered_data[st].total_orders,
                     total_order_value |-> filtered_data[st].total_order_value,
                     canceled_cnt |-> filtered_data[st].canceled_cnt,
                     canceled_value |-> filtered_data[st].canceled_value,
                     canceled_delay_cnt |-> filtered_data[st].canceled_delay_cnt,
                     canceled_delay_value |-> filtered_data[st].canceled_delay_value]],
        intensity |-> [st \in DOMAIN filtered_data |->
                        <<filtered_data[st].delay_1_3, filtered_data[st].delay_4_7,
                          filtered_data[st].delay_7_plus>>]]

\* ------------------------------------------------------------------ state
VARIABLES
    files,          \* the Parquet and the CSV files beside the script
    env,            \* which files can be read, and what the GeoJSON URL answers
    pc,             \* where the current run of the script is
    widget,         \* the multiselect's value kept by the session, Blank before it is drawn
    locals,         \* orders, customers, order_items inside load_and_process_data
    df,             \* the merged frame inside load_and_process_data
    data,           \* main's data (line 116)
    brazil_geojson, \* main's brazil_geojson (line 117)
    filtered_data,  \* main's filtered_data (lines 123-126)
    view,           \* what the run rendered
    cacheLoad,      \* st.cache_data's entry for load_and_process_data
    cacheGeo,       \* st.cache_data's entry for get_brazil_geojson
    loadExecs,      \* how often the body of load_and_process_data started
    loadReturns,    \* how often it returned
    geoExecs,       \* how often the body of get_brazil_geojson ran
    seenData,       \* every value a run got for data
    seenGeo         \* every value a run got for brazil_geojson

vars == <<files, env, pc, widget, locals, df, data, brazil_geojson, filtered_data,
          view, cacheLoad, cacheGeo, loadExecs, loadReturns, geoExecs, seenData, seenGeo>>

\* every environment: any of the files unreadable, and the three answers of the URL
Envs == [pqOk : SUBSET Files, csvOk : SUBSET Files, net : {"ok", "empty", "down"}]

NoLocals == [raised |-> FALSE, orders |-> Blank, customers |-> Blank, order_items |-> Blank]

StartOfRun ==
    /\ pc = "load"
    /\ widget = Blank
    /\ locals = NoLocals
    /\ df = Blank
    /\ data = Blank
    /\ brazil_geojson = Blank
    /\ filtered_data = Blank
    /\ view = Blank
    /\ cacheLoad = Blank
    /\ cacheGeo = Blank
    /\ loadExecs = 0
    /\ loadReturns = 0
    /\ geoExecs = 0
    /\ seenData = {}
    /\ seenGeo = {}

\* line 116: the cached call of load_and_process_data
CallLoad ==
    /\ pc = "load"
    /\ IF cacheLoad # Blank
       THEN /\ data' = cacheLoad
            /\ seenData' = seenData \cup {cacheLoad[1]}
            /\ pc' = "geo"
            /\ UNCHANGED loadExecs
       ELSE /\ loadExecs' = loadExecs + 1
            /\ pc' = "read"
            /\ UNCHANGED <<data, seenData>>
    /\ UNCHANGED <<files, env, widget, locals, df, brazil_geojson, filtered_data,
                   view, cacheLoad, cacheGeo, loadReturns, geoExecs, seenGeo>>

\* lines 26-33
ReadTables ==
    /\ pc = "read"
    /\ locals' = LoadTables(files, env)
    /\ pc' = IF locals'.raised THEN "failed" ELSE "transform"
    /\ UNCHANGED <<files, env, widget, df, data, brazil_geojson, filtered_data, view,
                   cacheLoad, cacheGeo, loadExecs, loadReturns, geoExecs, seenData, seenGeo>>

\* lines 35-76
Transform ==
    /\ pc = "transform"
    /\ df' = Cell(TransformFrame(TablesOf(locals)))
    /\ pc' = "aggregate"
    /\ UNCHANGED <<files, env, widget, locals, data, brazil_geojson, filtered_data,
                   view, cacheLoad, cacheGeo, loadExecs, loadReturns, geoExecs, seenData,
                   seenGeo>>

\* lines 78-109, and the return into line 116
AggregateStats ==
    /\ pc = "aggregate"
    /\ LET region_stats == Aggregate(df[1])
       IN IF region_stats = Blank
          THEN /\ pc' = "failed"
               /\ UNCHANGED <<data, cacheLoad, loadReturns, seenData>>
          ELSE /\ cacheLoad' = CacheStore(region_stats[1])
               /\ data' = region_stats
               /\ seenData' = seenData \cup {region_stats[1]}
               /\ loadReturns' = loadReturns + 1
               /\ pc' = "geo"
    /\ UNCHANGED <<files, env, widget, locals, df, brazil_geojson, filtered_data,
                   view, cacheGeo, loadExecs, geoExecs, seenGeo>>

\* line 117: the cached call of get_brazil_geojson
CallGeo ==
    /\ pc = "geo"
    /\ IF cacheGeo # Blank
       THEN /\ brazil_geojson' = cacheGeo
            /\ UNCHANGED <<cacheGeo, geoExecs>>
       ELSE /\ brazil_geojson' = Cell(get_brazil_geojson(env.net))
            /\ cacheGeo' = CacheStore(get_brazil_geojson(env.net))
            /\ geoExecs' = geoExecs + 1
    /\ seenGeo' = seenGeo \cup {brazil_geojson'[1]}
    /\ pc' = "sidebar"
    /\ UNCHANGED <<files, env, widget, locals, df, data, filtered_data, view,
                   cacheLoad, loadExecs, loadReturns, seenData>>

\* lines 120-126: the multiselect raises when a default is not among the options
Sidebar ==
    /\ pc = "sidebar"
    /\ IF DefaultStates \subseteq DOMAIN data[1]
       THEN /\ widget' = IF widget = Blank THEN Cell(DefaultStates) ELSE widget
            /\ filtered_data' = Cell(FilteredData(data[1], widget'[1]))
            /\ pc' = "render"
       ELSE /\ pc' = "failed"
            /\ UNCHANGED <<widget, filtered_data>>
    /\ UNCHANGED <<files, env, locals, df, data, brazil_geojson, view, cacheLoad,
                   cacheGeo, loadExecs, loadReturns, geoExecs, seenData, seenGeo>>

\* lines 128-322
Render ==
    /\ pc = "render"
    /\ view' = Cell(RenderPage(data[1], filtered_data[1], brazil_geojson[1]))
    /\ pc' = "done"
    /\ UNCHANGED <<files, env, widget, locals, df, data, brazil_geojson,
                   filtered_data, cacheLoad, cacheGeo, loadExecs, loadReturns, geoExecs,
                   seenData, seenGeo>>

\* a run starts with main's and the load step's locals unset
NewRun ==
    /\ pc' = "load"
    /\ locals' = NoLocals
    /\ df' = Blank
    /\ data' = Blank
    /\ brazil_geojson' = Blank
    /\ filtered_data' = Blank
    /\ view' = Blank

\* the user changes the multiselect of a rendered page: Streamlit reruns main
ChangeSelection ==
    /\ pc = "done"
    /\ \E sel \in SUBSET (DOMAIN data[1]) :
          /\ sel # widget[1]
          /\ widget' = Cell(sel)
    /\ NewRun
    /\ UNCHANGED <<files, env, cacheLoad, cacheGeo, loadExecs, loadReturns, geoExecs,
                   seenData, seenGeo>>

\* the page is loaded again, after a run that ended or failed: a new session
\* with no widget state, served by the same process and so by the same cache
\* (MaxLoadExecs caps the executions of the load step's body, which a run that
\* fails to load repeats); by then files may have come or gone and the network
\* may answer differently
Reload ==
    /\ pc \in {"done", "failed"}
    /\ loadExecs < MaxLoadExecs
    /\ widget' = Blank
    /\ env' \in Envs
    /\ NewRun
    /\ UNCHANGED <<files, cacheLoad, cacheGeo, loadExecs, loadReturns, geoExecs,
                   seenData, seenGeo>>

\* ----------------------------------------------------------------- inputs
Day(d) == d * TicksPerDay

Order(c, s, p, d, e) ==
    [customer_id |-> c, order_status |-> s, order_purchase_timestamp |-> p,
     order_delivered_customer_date |-> d, order_estimated_delivery_date |-> e]

RECURSIVE SetToSeq(_)
SetToSeq(S) ==
    IF S = {} THEN <<>>
    ELSE LET x == CHOOSE y \in S : TRUE IN <<x>> \o SetToSeq(S \ {x})

\* the non-decreasing sequences of n indices in lo..K: one table per multiset of rows
RECURSIVE SortedIdx(_, _, _)
SortedIdx(n, lo, K) ==
    IF n = 0 THEN {<<>>}
    ELSE UNION {{<<i>> \o t : t \in SortedIdx(n - 1, i, K)} : i \in lo..K}

\* the orders tables of 1..maxn rows drawn from shapes; order k has order_id k
OrdersTables(shapes, maxn) ==
    LET sh == SetToSeq(shapes)
    IN {[k \in 1..Len(t) |->
            [order_id |-> k,
             customer_id |-> sh[t[k]].customer_id,
             order_status |-> sh[t[k]].order_status,
             order_purchase_timestamp |-> sh[t[k]].order_purchase_timestamp,
             order_delivered_customer_date |-> sh[t[k]].order_delivered_customer_date,
             order_estimated_delivery_date |-> sh[t[k]].order_estimated_delivery_date]] :
        t \in UNION {SortedIdx(n, 1, Len(sh)) : n \in 1..maxn}}

\* delivered orders: the delivered date missing, the estimate missing, late,
\* on the estimated instant, early
DeliveredCases ==
    {<<Blank, Cell(Day(9))>>, <<Cell(Day(9) + 1), Blank>>, <<Cell(Day(9) + 1), Cell(Day(9))>>,
     <<Cell(Day(9)), Cell(Day(9))>>, <<Cell(Day(8)), Cell(Day(9))>>}

\* estimates at midnight, as in the dataset: none, 10, 5 and 2 days before the
\* snapshot's day, and the snapshot's own day
EstimateCells == {Blank, Cell(Day(1)), Cell(Day(6)), Cell(Day(9)), Cell(Day(11))}

\* purchases on day 10, at midnight and later in the day
PurchaseCells == {Cell(Day(10)), Cell(Day(10) + 1)}

\* rows rich in dates, for the flags
FlagShapes ==
    {Order(c, "delivered", Cell(Day(10)), de[1], de[2]) :
        c \in {"c1", "c2"}, de \in DeliveredCases}
    \cup {Order(c, s, p, Blank, e) :
        c \in {"c1", "c2"}, s \in {"canceled", "shipped"}, p \in PurchaseCells,
        e \in EstimateCells}
    \cup {Order("c1", "shipped", Blank, Blank, Cell(Day(9)))}

\* rows rich in customers, for the regions; c3 has no customer record and c4 has
\* one without a state
RegionShapes ==
    {Order(c, "delivered", Cell(Day(10) + 1), Cell(Day(10)), e) :
        c \in {"c1", "c2"}, e \in {Cell(Day(9)), Cell(Day(11))}}
    \cup {Order(c, s, Cell(Day(10) + 1), Blank, e) :
        c \in {"c1", "c2"}, s \in {"canceled", "shipped"}, e \in {Cell(Day(9)), Cell(Day(11))}}
    \cup {Order(c, "shipped", Cell(Day(10) + 1), Blank, Cell(Day(9))) : c \in {"c3", "c4"}}

Customer(c, st) == [customer_id |-> c, customer_state |-> st]
CustomersUnique == <<Customer("c1", "RJ"), Customer("c2", "SP"), Customer("c4", NaN)>>
CustomersRepeated == <<Customer("c1", "RJ"), Customer("c1", "SP"), Customer("c2", "SP")>>

Item(o, price) == [order_id |-> o, price |-> price]
ItemsNone == <<>>
ItemsSome == <<Item(1, 10), Item(1, 5), Item(2, 7)>>

Dataset(o, c, i) == [orders |-> o, customers |-> c, order_items |-> i]

FlagDatasets ==
    {Dataset(o, CustomersUnique, ItemsSome) : o \in OrdersTables(FlagShapes, MaxOrders)}

RegionDatasets ==
    {Dataset(o, ci[1], ci[2]) :
        o \in OrdersTables(RegionShapes, MaxRegionOrders),
        ci \in {<<CustomersUnique, ItemsNone>>, <<CustomersUnique, ItemsSome>>,
                <<CustomersRepeated, ItemsSome>>}}

\* three small directories for the runs of the page: one that renders, one whose
\* single region makes pd.qcut raise, one without the default state RJ
RawOrders(shapes) ==
    [k \in 1..Len(shapes) |->
        [order_id |-> k,
         customer_id |-> shapes[k].customer_id,
         order_status |-> shapes[k].order_status,
         order_purchase_timestamp |-> shapes[k].order_purchase_timestamp,
         order_delivered_customer_date |-> shapes[k].order_delivered_customer_date,
         order_estimated_delivery_date |-> shapes[k].order_estimated_delivery_date]]

PageDatasets ==
    {Dataset(RawOrders(<<Order("c1", "shipped", Cell(Day(10)), Blank, Cell(Day(6))),
                         Order("c1", "delivered", Cell(Day(10) + 1), Cell(Day(9)), Cell(Day(9))),
                         Order("c2", "canceled", Cell(Day(10)), Blank, Cell(Day(11)))>>),
             CustomersUnique, ItemsSome),
     Dataset(RawOrders(<<Order("c1", "delivered", Cell(Day(10)), Cell(Day(9) + 1), Cell(Day(9)))>>),
             CustomersUnique, ItemsNone),
     Dataset(RawOrders(<<Order("c2", "shipped", Cell(Day(10)), Blank, Cell(Day(1))),
                         Order("c2", "delivered", Cell(Day(10)), Cell(Day(9)), Cell(Day(9))),
                         Order("c3", "canceled", Cell(Day(10)), Blank, Cell(Day(9))),
                         Order("c5", "canceled", Cell(Day(10)), Blank, Cell(Day(9)))>>),
             <<Customer("c2", "SP"), Customer("c5", "MG")>>, ItemsSome)}

\* the page served from any of the small directories, in any environment
Init ==
    /\ files \in [pq : PageDatasets, csv : PageDatasets]
    /\ env \in Envs
    /\ StartOfRun

Next ==
    \/ CallLoad
    \/ ReadTables
    \/ Transform
    \/ AggregateStats
    \/ CallGeo
    \/ Sidebar
    \/ Render
    \/ ChangeSelection
    \/ Reload

Spec == Init /\ [][Next]_vars

\* one session over readable files, for the claims about the pipeline's results
InitPipeline ==
    /\ \E ds \in FlagDatasets \cup RegionDatasets : files = [pq |-> ds, csv |-> ds]
    /\ env = [pqOk |-> Files, csvOk |-> Files, net |-> "ok"]
    /\ StartOfRun

NextPipeline ==
    \/ CallLoad
    \/ ReadTables
    \/ Transform
    \/ AggregateStats
    \/ CallGeo
    \/ Sidebar
    \/ Render
    \/ ChangeSelection

SpecPipeline == InitPipeline /\ [][NextPipeline]_vars

\* ------------------------------------------------------------------ claims
\* what the claims read of the current run
Has(cell) == cell # Blank
RawOrdersRead == locals.orders[1].rows
RawCustomersRead == locals.customers[1].rows
RawItemsRead == locals.order_items[1].rows
FrameBuilt == df # Blank
StatsReturned == df # Blank /\ data # Blank
AllDelays(row) == row.success_delay_cnt + row.failure_delay_cnt + row.canceled_delay_cnt
Abs(x) == IF x < 0 THEN -x ELSE x
SelectedRegions ==
    IF widget[1] = {} THEN DOMAIN data[1] ELSE DOMAIN data[1] \cap widget[1]

\* C1: with snapshot = the latest purchase timestamp + 1 day, every row of the
\* frame has is_success_delay iff its order is 'delivered' and was delivered
\* strictly after the estimate, is_failure_delay iff its status is neither
\* 'delivered' nor 'canceled' and the estimate is strictly before snapshot,
\* is_canceled_delay iff it is 'canceled' and the estimate is strictly before
\* snapshot; an order whose compared date is missing has none of the flags.
C1_DelayFlags ==
    FrameBuilt =>
        LET raw == RawOrdersRead
            stamps == {raw[k].order_purchase_timestamp[1] :
                          k \in {j \in 1..Len(raw) : Has(raw[j].order_purchase_timestamp)}}
        IN stamps # {} =>
            LET snapshot == Max(stamps) + TicksPerDay
            IN \A i \in 1..Len(df[1]) :
                LET r == df[1][i]
                    o == raw[r.order_id]
                    d == o.order_delivered_customer_date
                    e == o.order_estimated_delivery_date
                    st == o.order_status
                IN /\ r.is_success_delay <=>
                        (st = "delivered" /\ Has(d) /\ Has(e) /\ d[1] > e[1])
                   /\ r.is_failure_delay <=>
                        (st \notin {"delivered", "canceled"} /\ Has(e) /\ e[1] < snapshot)
                   /\ r.is_canceled_delay <=>
                        (st = "canceled" /\ Has(e) /\ e[1] < snapshot)
                   /\ (~Has(e) \/ (st = "delivered" /\ ~Has(d))) =>
                        (~r.is_success_delay /\ ~r.is_failure_delay /\ ~r.is_canceled_delay)

\* a frame with a late delivery, and an undelivered order that is overdue only
\* because another order was purchased later in the day
C1_Witness ==
    /\ FrameBuilt
    /\ \E i \in 1..Len(df[1]) :
          /\ df[1][i].is_failure_delay \/ df[1][i].is_canceled_delay
          /\ df[1][i].order_estimated_delivery_date >=
                 df[1][i].order_purchase_timestamp + TicksPerDay
    /\ \E i \in 1..Len(df[1]) : df[1][i].is_success_delay

\* C2 as written: 'Total Delay Ratio (%)' is exactly 100 * (the three delay
\* counts) / total_orders, and lies in 0..100.
C2_ExactRatio ==
    StatsReturned =>
        \A st \in DOMAIN data[1] :
            LET row == data[1][st]
            IN /\ row.total_delay_ratio * row.total_orders = 10000 * AllDelays(row)
               /\ row.total_delay_ratio >= 0
               /\ row.total_delay_ratio <= 10000

\* C2 amended: 'Total Delay Ratio (%)' is 100 * (the three delay counts) /
\* total_orders rounded to two decimals (within half a hundredth of a percent
\* of it) and lies in 0..100, because no row carries more than one of the three
\* flags, so the counts add up to at most total_orders of the frame's rows of
\* the region, and every region has total_orders >= 1.
C2_RoundedRatio ==
    StatsReturned =>
        /\ \A i \in 1..Len(df[1]) :
              Cardinality({f \in {"is_success_delay", "is_failure_delay", "is_canceled_delay"} :
                              df[1][i][f]}) <= 1
        /\ \A st \in DOMAIN data[1] :
              LET row == data[1][st]
              IN /\ row.total_orders >= 1
                 /\ row.total_orders = Cardinality({i \in 1..Len(df[1]) : df[1][i].customer_state = st})
                 /\ AllDelays(row) =
                        Cardinality({i \in 1..Len(df[1]) :
                            /\ df[1][i].customer_state = st
                            /\ \/ df[1][i].is_success_delay
                               \/ df[1][i].is_failure_delay
                               \/ df[1][i].is_canceled_delay})
                 /\ AllDelays(row) <= row.total_orders
                 /\ 2 * Abs(row.total_delay_ratio * row.total_orders - 10000 * AllDelays(row))
                        <= row.total_orders
                 /\ row.total_delay_ratio >= 0
                 /\ row.total_delay_ratio <= 10000

\* a region with one delayed order in three: 33.33, not a third of 100
C2_Witness ==
    /\ StatsReturned
    /\ \E st \in DOMAIN data[1] :
          /\ data[1][st].total_orders = 3
          /\ AllDelays(data[1][st]) = 1
          /\ data[1][st].total_delay_ratio = 3333

\* the customer records an order's customer_id matches
MatchesOf(o) ==
    {j \in 1..Len(RawCustomersRead) : RawCustomersRead[j].customer_id = o.customer_id}
EveryOrderHasOneState ==
    \A k \in 1..Len(RawOrdersRead) :
        /\ Cardinality(MatchesOf(RawOrdersRead[k])) = 1
        /\ \A j \in MatchesOf(RawOrdersRead[k]) : RawCustomersRead[j].customer_state # NaN
StateOfOrder(k) ==
    RawCustomersRead[CHOOSE j \in MatchesOf(RawOrdersRead[k]) : TRUE].customer_state
ItemsOf(k) == {m \in 1..Len(RawItemsRead) : RawItemsRead[m].order_id = k}

\* C3: when every order matches exactly one customer record that has a state,
\* each order is one row of the frame, in that state, priced at the sum of its
\* line items (0 without any), each region's total_orders counts exactly the
\* orders of its state and the totals add up to the number of orders; an order
\* that matches no customer record is counted in no region.
C3_OrdersConserved ==
    FrameBuilt =>
        /\ EveryOrderHasOneState =>
              /\ Len(df[1]) = Len(RawOrdersRead)
              /\ \A k \in 1..Len(RawOrdersRead) :
                    \E i \in 1..Len(df[1]) :
                        /\ df[1][i].order_id = k
                        /\ \A j \in 1..Len(df[1]) : df[1][j].order_id = k => j = i
                        /\ df[1][i].customer_state = StateOfOrder(k)
                        /\ df[1][i].price =
                               SumOver([m \in 1..Len(RawItemsRead) |-> RawItemsRead[m].price],
                                       ItemsOf(k))
              /\ data # Blank =>
                    /\ SumOver([st \in DOMAIN data[1] |-> data[1][st].total_orders],
                               DOMAIN data[1]) = Len(RawOrdersRead)
                    /\ \A st \in DOMAIN data[1] :
                          data[1][st].total_orders =
                              Cardinality({k \in 1..Len(RawOrdersRead) : StateOfOrder(k) = st})
                    /\ \A st \in DOMAIN data[1] :
                          data[1][st].total_order_value =
                              SumOver([m \in 1..Len(RawItemsRead) |-> RawItemsRead[m].price],
                                      {m \in 1..Len(RawItemsRead) :
                                          /\ RawItemsRead[m].order_id \in 1..Len(RawOrdersRead)
                                          /\ StateOfOrder(RawItemsRead[m].order_id) = st})
        /\ \A k \in 1..Len(RawOrdersRead) :
              MatchesOf(RawOrdersRead[k]) = {} =>
                  /\ \A i \in 1..Len(df[1]) :
                        df[1][i].order_id = k => df[1][i].customer_state = NaN
                  /\ data # Blank =>
                        \A st \in DOMAIN data[1] : \A i \in Rows(df[1], st) : df[1][i].order_id # k

\* region_stats over orders that each have one state, one order with two line
\* items and one with none
C3_Witness ==
    /\ StatsReturned
    /\ EveryOrderHasOneState
    /\ \E k \in 1..Len(RawOrdersRead) : Cardinality(ItemsOf(k)) = 2
    /\ \E k \in 1..Len(RawOrdersRead) : ItemsOf(k) = {}
    /\ \E st \in DOMAIN data[1] : data[1][st].total_orders >= 2

\* C4: with an empty selection filtered_data is all of region_stats, otherwise
\* exactly the rows whose customer_state is selected, unchanged; the KPI cards,
\* the pie chart, the statistics table and the delay-intensity chart show
\* those rows only.
C4_FilteredBySelection ==
    pc = "done" =>
        LET shown == SelectedRegions
            sum(col) == SumOver([st \in shown |-> data[1][st][col]], shown)
        IN /\ widget[1] = {} => filtered_data[1] = data[1]
           /\ DOMAIN filtered_data[1] = shown
           /\ \A st \in shown : filtered_data[1][st] = data[1][st]
           /\ view[1].kpi_total_orders = sum("total_orders")
           /\ view[1].kpi_success_delay = sum("success_delay_cnt")
           /\ view[1].kpi_failure_delay = sum("failure_delay_cnt")
           /\ view[1].avg_total_delay.den = sum("total_orders")
           /\ view[1].pie = <<sum("success_delay_cnt"), sum("failure_delay_cnt")>>
           /\ DOMAIN view[1].table = shown
           /\ \A st \in shown : view[1].table[st].total_orders = data[1][st].total_orders
           /\ DOMAIN view[1].intensity = shown
           /\ \A st \in shown :
                 view[1].intensity[st] =
                     <<data[1][st].delay_1_3, data[1][st].delay_4_7, data[1][st].delay_7_plus>>

\* a page rendered for the empty selection over two regions
C4_Witness ==
    /\ pc = "done"
    /\ widget[1] = {}
    /\ Cardinality(DOMAIN filtered_data[1]) >= 2
    /\ view[1].kpi_total_orders >= 3

\* C5: the fallback from Parquet to CSV is taken as a unit: the three tables
\* the pipeline goes on with all come from Parquet, when all three Parquet
\* files can be read, or all come from CSV; when a Parquet read and a CSV read
\* fail, load_and_process_data fails and returns no region_stats.
C5_FallbackAsUnit ==
    /\ pc \in {"transform", "aggregate"} =>
          /\ \A f \in Files : Has(locals[f])
          /\ \E kind \in {"parquet", "csv"} :
                /\ \A f \in Files : locals[f][1].src = kind
                /\ kind = "parquet" <=> Files \subseteq env.pqOk
                /\ kind = "csv" => Files \subseteq env.csvOk
                /\ \A f \in Files :
                      locals[f][1].rows = IF kind = "parquet" THEN files.pq[f] ELSE files.csv[f]
    /\ (pc = "failed" /\ locals.raised) =>
          /\ ~(Files \subseteq env.pqOk) /\ ~(Files \subseteq env.csvOk)
          /\ df = Blank
          /\ data = Blank
          /\ cacheLoad = Blank

\* the orders Parquet file was read, another Parquet read failed, and all three
\* tables are the CSV ones
C5_Witness ==
    /\ pc = "transform"
    /\ "orders" \in env.pqOk
    /\ \A f \in Files : locals[f][1].src = "csv"
    /\ files.pq.orders # files.csv.orders

\* C6 as written: over any sequence of runs the body of load_and_process_data
\* and the body of get_brazil_geojson each execute at most once, and every run
\* sees the same region_stats and the same GeoJSON result.
C6_BodiesRunOnce ==
    /\ loadExecs <= 1
    /\ geoExecs <= 1
    /\ Cardinality(seenData) <= 1
    /\ Cardinality(seenGeo) <= 1

\* C6 amended: the body of get_brazil_geojson executes at most once and the
\* body of load_and_process_data returns at most once; a call of it that raises
\* is not memoized, and the body executes again in each later run until a call
\* returns.  Every run that gets them sees the same region_stats and the same
\* GeoJSON result, and once the fetch has returned None every later page shows
\* the map-failure warning, the fetch not retried.
C6_ReturnsMemoized ==
    /\ geoExecs <= 1
    /\ loadReturns <= 1
    /\ loadExecs >= loadReturns
    /\ Cardinality(seenData) <= 1
    /\ Cardinality(seenGeo) <= 1
    /\ data # Blank => (cacheLoad = data /\ loadReturns = 1)
    /\ brazil_geojson # Blank => (cacheGeo = brazil_geojson /\ geoExecs = 1)
    /\ (loadReturns = 1 /\ pc = "load") => ~ENABLED (CallLoad /\ loadExecs' # loadExecs)
    /\ (loadReturns = 0 /\ pc = "load") => ~ENABLED (CallLoad /\ loadExecs' = loadExecs)
    /\ (cacheGeo = Cell(None) /\ pc = "done") => view[1].map_warning

\* a later page, with the network back, still showing the warning of the
\* failed fetch
C6_Witness ==
    /\ pc = "done"
    /\ cacheGeo = Cell(None)
    /\ env.net = "ok"
    /\ view[1].map_warning
    /\ geoExecs = 1

\* C7: every row flagged is_failure_delay or is_canceled_delay has exactly one
\* of the three intensity categories and no other row has one; hence in every
\* region delay_1_3 + delay_4_7 + delay_7_plus = failure_delay_cnt +
\* canceled_delay_cnt.
C7_IntensityCoversDelays ==
    /\ FrameBuilt =>
          \A i \in 1..Len(df[1]) :
              (df[1][i].is_failure_delay \/ df[1][i].is_canceled_delay)
                  <=> df[1][i].delay_intensity \in {"1-3", "4-7", "7+"}
    /\ data # Blank =>
          \A st \in DOMAIN data[1] :
              data[1][st].delay_1_3 + data[1][st].delay_4_7 + data[1][st].delay_7_plus
                  = data[1][st].failure_delay_cnt + data[1][st].canceled_delay_cnt

\* the sum of a column of region_stats over the regions the page is about
SelectedSum(col) == SumOver([st \in SelectedRegions |-> data[1][st][col]], SelectedRegions)
\* the order-weighted sum of the stored Total Delay Ratio over those regions
WeightedRatioSum ==
    SumOver([st \in SelectedRegions |-> data[1][st].total_orders * data[1][st].total_delay_ratio],
            SelectedRegions)

\* C8 as written: the delay-rate KPI is 100 * (success-delay + failure-delay
\* orders) / total_orders over the selected regions, never greater than the
\* order-weighted average of their Total Delay Ratio and equal to it when no
\* selected region has a canceled-delay order.
C8_KpiBelowStoredRatios ==
    pc = "done" =>
        LET kpi == view[1].avg_total_delay
        IN /\ kpi.num = 10000 * (SelectedSum("success_delay_cnt") + SelectedSum("failure_delay_cnt"))
           /\ kpi.den = SelectedSum("total_orders")
           /\ kpi.num <= WeightedRatioSum
           /\ SelectedSum("canceled_delay_cnt") = 0 => kpi.num = WeightedRatioSum

\* C8 amended: the KPI is 100 * (success-delay + failure-delay orders) /
\* total_orders over the selected regions, canceled-delay orders left out; it
\* is never greater than 100 * (all three delay counts) / total_orders over
\* them, the order-weighted average of their total delay ratios before
\* rounding, and equals it exactly when no selected region has a canceled-delay
\* order; the order-weighted average of the stored, rounded Total Delay Ratio
\* is within 0.005 of that unrounded average.
C8_KpiBelowUnroundedRatios ==
    pc = "done" =>
        LET kpi == view[1].avg_total_delay
            all == 10000 * (SelectedSum("success_delay_cnt") + SelectedSum("failure_delay_cnt")
                            + SelectedSum("canceled_delay_cnt"))
        IN /\ kpi.num = 10000 * (SelectedSum("success_delay_cnt") + SelectedSum("failure_delay_cnt"))
           /\ kpi.den = SelectedSum("total_orders")
           /\ kpi.den >= 1
           /\ kpi.num <= all
           /\ kpi.num = all <=> SelectedSum("canceled_delay_cnt") = 0
           /\ 2 * Abs(WeightedRatioSum - all) <= kpi.den

\* a page over a region with a canceled-delay order and a region whose ratio is
\* rounded
C8_Witness ==
    /\ pc = "done"
    /\ SelectedSum("canceled_delay_cnt") >= 1
    /\ SelectedSum("success_delay_cnt") + SelectedSum("failure_delay_cnt") >= 1
    /\ \E st \in SelectedRegions :
          data[1][st].total_delay_ratio * data[1][st].total_orders # 10000 * AllDelays(data[1][st])
====
